---- MODULE Spec2Model ----
(***************************************************************************)
(* Model of backend/main.py of whitepaper-ai: the upload / design-course   *)
(* pipeline with its detached background job, the in-memory status map,    *)
(* the on-demand quiz and flashcard generators, the quiz submission       *)
(* scorer, the course reader and the export placeholder.                   *)
(*                                                                         *)
(* Scheduling is asyncio's: a coroutine runs without interruption between  *)
(* two awaits.  Every step of process_pdf_background below is the code     *)
(* between two awaits, with the awaited store or generator call taking     *)
(* effect at the start of the step; the course insert and the status       *)
(* update that follows it are two steps.  A request handler is one action: *)
(* design_course writes only after its single read, of a record that is    *)
(* never changed or deleted; the id upload_whitepaper draws is known to no *)
(* client before the handler returns; generate_quiz, generate_flashcards,  *)
(* submit_quiz, get_course and export_course calls are taken one at a      *)
(* time.  A store call that raises has written nothing.                    *)
(*                                                                         *)
(* Left out: titles, descriptions, timestamps, the quiz id of a module     *)
(* shell and the text payloads; no modelled operation branches on them.    *)
(* uuid4 values are modelled as fresh naturals.                            *)
(***************************************************************************)
EXTENDS Integers, Sequences, FiniteSets, TLC

\* ---------------------------------------------------------------- bounds
MaxUploads == 2
MaxRuns == 2
MaxMods == 2
NumModIds == 2
MaxGenQ == 1
MaxQuestions == 4
NumAnswers == 2
MaxQuizCalls == 2
MaxSubmits == 2

\* ------------------------------------------------------------- constants
\* "passed": score >= 70
PassThreshold == 70

NoId == 0
ModIds == {100 + i : i \in 1..NumModIds}
Uuids == 1..(MaxUploads + MaxRuns)
RequestIds == {NoId} \cup Uuids
Answers == 1..NumAnswers

VARIABLES
    db_courses,          \* db.courses: uploads and finalized courses, in insertion order
    db_modules,          \* db.modules: module documents, in insertion order
    processing_status,   \* the in-memory dict upload id -> ProcessingStatus
    tasks,               \* the background tasks made by asyncio.create_task, in creation order
    next_uuid,           \* the next value uuid.uuid4() yields
    resp,                \* the outcome of the last request handler or job step
    triggers_ok,         \* history: number of design_course calls that returned 200
    gen_log,             \* history: per module id, the generator outputs of its generate_quiz calls
    submit_log,          \* history: per module id, the scores its submit_quiz calls returned
    cards_generated      \* history: the module ids generate_flashcards has written flashcards for

vars == <<db_courses, db_modules, processing_status, tasks, next_uuid, resp,
          triggers_ok, gen_log, submit_log, cards_generated>>

quiz_hist == <<gen_log, submit_log, cards_generated>>

\* ------------------------------------------------------------ documents
SeqsUpTo(S, n) == UNION {[1..k -> S] : k \in 0..n}

\* The upload_doc dict of upload_whitepaper.
UploadDoc(id) ==
    [id |-> id, user_id |-> "demo_user", type |-> "pdf", status |-> "uploaded"]

\* One element of Course.modules as the job stores it: the bare id string.
ModuleIdElem(mod_id) == [str |-> mod_id]

\* The final_course dict: Course(...).model_dump().
CourseDoc(course_id, module_ids) ==
    [id |-> course_id, user_id |-> "demo_user", objectives |-> TRUE,
     modules |-> [i \in 1..Len(module_ids) |-> ModuleIdElem(module_ids[i])],
     progress |-> 0]

\* The full_module dict: Module(...).model_dump().
ModuleDoc(mod_id, course_id) ==
    [id |-> mod_id, course_id |-> course_id, flashcards |-> <<>>,
     quiz |-> [questions |-> <<>>, attempts |-> 0],
     completed |-> FALSE, timeSpent |-> 0]

\* ProcessingStatus(id=..., status=..., progress=..., message=...); course_id defaults to None.
ProcessingStatus(id, st, progress, message) ==
    [id |-> id, status |-> st, progress |-> progress, message |-> message,
     course_id |-> NoId]

Message(text, course_id, err) == [text |-> text, course_id |-> course_id, err |-> err]

\* ---------------------------------------------------------------- store
\* collection.find_one({"id": id}): index of the first document with that id, 0 if none.
FindOne(coll, id) ==
    IF \E i \in 1..Len(coll) : coll[i].id = id
    THEN CHOOSE i \in 1..Len(coll) :
             /\ coll[i].id = id
             /\ \A j \in 1..(i - 1) : coll[j].id # id
    ELSE 0

\* collection.insert_one(doc)
InsertOne(coll, doc) == Append(coll, doc)

IsUpload(doc) == "type" \in DOMAIN doc /\ doc.type = "pdf"
IsCourse(doc) == "objectives" \in DOMAIN doc

NumUploads == Cardinality({i \in 1..Len(db_courses) : IsUpload(db_courses[i])})

\* ----------------------------------------------------------------- Init
Init ==
    /\ db_courses = <<>>
    /\ db_modules = <<>>
    /\ processing_status = <<>>
    /\ tasks = <<>>
    /\ next_uuid = 1
    /\ resp = [op |-> "startup"]
    /\ triggers_ok = 0
    /\ gen_log = [m \in ModIds |-> <<>>]
    /\ submit_log = [m \in ModIds |-> <<>>]
    /\ cards_generated = {}

\* The status dict is a function whose domain is the set of tracked ids.
SetStatus(id, rec) ==
    [k \in (DOMAIN processing_status) \cup {id} |->
        IF k = id THEN rec ELSE processing_status[k]]

\* ----------------------------------------------------- upload_whitepaper
\* Mutant: the new upload is tracked as already processing.
InitialStatusProcessing(upload_id) ==
    ProcessingStatus(upload_id, "processing", 10,
        Message("File uploaded. Ready to design course.", NoId, ""))

\* The status upload_whitepaper installs for a new upload.
InitialStatus(upload_id) ==
    ProcessingStatus(upload_id, "uploaded", 0,
        Message("File uploaded. Ready to design course.", NoId, ""))

\* POST /api/upload with an empty file: 400 before anything is written.
upload_whitepaper_empty ==
    /\ resp' = [op |-> "upload", code |-> 400]
    /\ UNCHANGED <<db_courses, db_modules, processing_status, tasks, next_uuid,
                   triggers_ok, quiz_hist>>

\* POST /api/upload with content, db.courses.insert_one raising: the handler
\* stops at the await, before the status entry is made.
upload_whitepaper_store_error ==
    /\ NumUploads < MaxUploads
    /\ resp' = [op |-> "upload", code |-> 500]
    /\ UNCHANGED <<db_courses, db_modules, processing_status, tasks, next_uuid,
                   triggers_ok, quiz_hist>>

\* POST /api/upload with content: insert the upload record, then track it.
upload_whitepaper ==
    /\ NumUploads < MaxUploads
    /\ next_uuid \in Uuids
    /\ LET upload_id == next_uuid IN
        /\ next_uuid' = next_uuid + 1
        /\ db_courses' = InsertOne(db_courses, UploadDoc(upload_id))
        /\ processing_status' = SetStatus(upload_id, InitialStatus(upload_id))
        /\ resp' = [op |-> "upload", code |-> 200, id |-> upload_id, status |-> "uploaded"]
    /\ UNCHANGED <<db_modules, tasks, triggers_ok, quiz_hist>>

\* --------------------------------------------------------- design_course
\* Mutant: the task is run up to its second await when it is created.
NewTaskEager(upload_id) ==
    [upload_id |-> upload_id, pc |-> "generate", course_id |-> NoId,
     module_ids |-> <<>>, inserted |-> 0, course_saved |-> FALSE, err |-> ""]

\* A task right after asyncio.create_task: scheduled, nothing executed yet.
\* inserted and course_saved count the store writes the task has made.
NewTask(upload_id) ==
    [upload_id |-> upload_id, pc |-> "start", course_id |-> NoId,
     module_ids |-> <<>>, inserted |-> 0, course_saved |-> FALSE, err |-> ""]

\* Mutant: no second task while one for the same upload is still in flight.
CreateTaskDedup(ts, upload_id) ==
    IF \E t \in 1..Len(ts) : ts[t].upload_id = upload_id /\ ts[t].pc \notin {"done", "failed"}
    THEN ts
    ELSE Append(ts, [upload_id |-> upload_id, pc |-> "start", course_id |-> NoId,
                     module_ids |-> <<>>, inserted |-> 0, course_saved |-> FALSE, err |-> ""])

\* create_task puts one task on the event loop.
CreateTask(ts, upload_id) == Append(ts, NewTask(upload_id))

\* Mutant: the trigger leaves the upload tracked as uploaded.
TriggerStatusUploaded(upload_id) ==
    ProcessingStatus(upload_id, "uploaded", 10, Message("Starting AI analysis...", NoId, ""))

\* The status design_course installs before it schedules the job.
TriggerStatus(upload_id) ==
    ProcessingStatus(upload_id, "processing", 10, Message("Starting AI analysis...", NoId, ""))

\* Mutant: the type check is dropped, any record with the id counts as an upload.
UploadFoundNoType(coll, upload_id) == FindOne(coll, upload_id) # 0

\* not (not upload_record or upload_record.get("type") != "pdf")
UploadFound(coll, upload_id) ==
    LET i == FindOne(coll, upload_id) IN
    i # 0 /\ IsUpload(coll[i])

\* POST /api/design-course/{upload_id}
design_course(upload_id) ==
    IF ~UploadFound(db_courses, upload_id)
    THEN /\ resp' = [op |-> "design", code |-> 404, id |-> upload_id]
         /\ UNCHANGED <<db_courses, db_modules, processing_status, tasks, next_uuid,
                        triggers_ok, quiz_hist>>
    ELSE /\ Len(tasks) < MaxRuns
         /\ processing_status' = SetStatus(upload_id, TriggerStatus(upload_id))
         /\ tasks' = CreateTask(tasks, upload_id)
         /\ triggers_ok' = triggers_ok + 1
         /\ resp' = [op |-> "design", code |-> 200, id |-> upload_id, status |-> "processing"]
         /\ UNCHANGED <<db_courses, db_modules, next_uuid, quiz_hist>>

\* ------------------------------------------------ process_pdf_background
SetTask(t, rec) == [tasks EXCEPT ![t] = rec]

\* Mutant: the except branch forgets to reset the progress.
FailedStatusKeepsProgress(st, err) ==
    [st EXCEPT !.status = "failed",
               !.message = Message("Processing failed: ", NoId, err)]

\* The fields the except branch writes: status, message with str(e), progress.
FailedStatus(st, err) ==
    [st EXCEPT !.status = "failed",
               !.message = Message("Processing failed: ", NoId, err),
               !.progress = 0]

\* Mutant: the exception ends the task without a status write.
JobFailedSilent(t, err) ==
    /\ tasks' = SetTask(t, [tasks[t] EXCEPT !.pc = "failed", !.err = err])
    /\ resp' = [op |-> "job", task |-> t, step |-> "except"]
    /\ UNCHANGED processing_status

\* The except branch of the job.
JobFailed(t, err) ==
    LET u == tasks[t].upload_id IN
    /\ processing_status' =
           [processing_status EXCEPT ![u] = FailedStatus(processing_status[u], err)]
    /\ tasks' = SetTask(t, [tasks[t] EXCEPT !.pc = "failed", !.err = err])
    /\ resp' = [op |-> "job", task |-> t, step |-> "except"]

\* Mutant: the except branch deletes the modules the task has inserted.
job_store_errorRollback(t) ==
    /\ tasks[t].pc \in {"start", "modules", "course"}
    /\ JobFailed(t, "store error")
    /\ db_modules' = SelectSeq(db_modules, LAMBDA m : m.course_id # tasks[t].course_id)
    /\ UNCHANGED <<db_courses, next_uuid, triggers_ok, quiz_hist>>

\* The store raises on the call the task is waiting on (find, module insert or course insert).
job_store_error(t) ==
    /\ tasks[t].pc \in {"start", "modules", "course"}
    /\ JobFailed(t, "store error")
    /\ UNCHANGED <<db_courses, db_modules, next_uuid, triggers_ok, quiz_hist>>

\* Mutant: the second step reports half of the work as done.
job_fetch_uploadHalf(t) ==
    /\ tasks[t].pc = "start"
    /\ LET u == tasks[t].upload_id IN
       IF FindOne(db_courses, u) = 0
       THEN JobFailed(t, "Upload not found")
       ELSE /\ processing_status' =
                   [processing_status EXCEPT
                       ![u].progress = 50,
                       ![u].message = Message("Generating course structure...", NoId, "")]
            /\ tasks' = SetTask(t, [tasks[t] EXCEPT !.pc = "generate"])
            /\ resp' = [op |-> "job", task |-> t, step |-> "fetch"]
    /\ UNCHANGED <<db_courses, db_modules, next_uuid, triggers_ok, quiz_hist>>

\* From the start of the task over the find_one up to the await on the generator.
job_fetch_upload(t) ==
    /\ tasks[t].pc = "start"
    /\ LET u == tasks[t].upload_id IN
       IF FindOne(db_courses, u) = 0
       THEN JobFailed(t, "Upload not found")
       ELSE /\ processing_status' =
                   [processing_status EXCEPT
                       ![u].progress = 30,
                       ![u].message = Message("Generating course structure...", NoId, "")]
            /\ tasks' = SetTask(t, [tasks[t] EXCEPT !.pc = "generate"])
            /\ resp' = [op |-> "job", task |-> t, step |-> "fetch"]
    /\ UNCHANGED <<db_courses, db_modules, next_uuid, triggers_ok, quiz_hist>>

\* processor.process_document raises.
job_generator_error(t) ==
    /\ tasks[t].pc = "generate"
    /\ JobFailed(t, "generator error")
    /\ UNCHANGED <<db_courses, db_modules, next_uuid, triggers_ok, quiz_hist>>

\* Mutant: the course is saved first, the module inserts are skipped.
AfterGenerateCourseFirst(module_ids) == "course"

\* Where the task waits once the module documents are built: on the first
\* module insert, or on the course insert when there is no module.
AfterGenerate(module_ids) == IF Len(module_ids) = 0 THEN "course" ELSE "modules"

\* processor.process_document returns skeletons with the ids module_ids: the
\* course id is drawn, the module documents are built, the first insert is awaited.
job_generate(t, module_ids) ==
    /\ tasks[t].pc = "generate"
    /\ next_uuid \in Uuids
    /\ next_uuid' = next_uuid + 1
    /\ tasks' = SetTask(t, [tasks[t] EXCEPT
                               !.course_id = next_uuid,
                               !.module_ids = module_ids,
                               !.pc = AfterGenerate(module_ids)])
    /\ resp' = [op |-> "job", task |-> t, step |-> "generate"]
    /\ UNCHANGED <<db_courses, db_modules, processing_status, triggers_ok, quiz_hist>>

\* One db.modules.insert_one of the save loop returns.
job_insert_module(t) ==
    /\ tasks[t].pc = "modules"
    /\ LET k == tasks[t].inserted + 1 IN
        /\ db_modules' = InsertOne(db_modules, ModuleDoc(tasks[t].module_ids[k], tasks[t].course_id))
        /\ tasks' = SetTask(t, [tasks[t] EXCEPT
                                   !.inserted = k,
                                   !.pc = IF k = Len(tasks[t].module_ids) THEN "course" ELSE "modules"])
    /\ resp' = [op |-> "job", task |-> t, step |-> "insert_module"]
    /\ UNCHANGED <<db_courses, processing_status, next_uuid, triggers_ok, quiz_hist>>

\* Mutant: the task goes on to the completed write without the course insert.
job_insert_courseSkipped(t) ==
    /\ tasks[t].pc = "course"
    /\ tasks' = SetTask(t, [tasks[t] EXCEPT !.pc = "finalize", !.course_saved = TRUE])
    /\ resp' = [op |-> "job", task |-> t, step |-> "insert_course"]
    /\ UNCHANGED <<db_courses, db_modules, processing_status, next_uuid, triggers_ok, quiz_hist>>

\* db.courses.insert_one(final_course) takes effect; the task is still suspended on it.
job_insert_course(t) ==
    /\ tasks[t].pc = "course"
    /\ db_courses' = InsertOne(db_courses, CourseDoc(tasks[t].course_id, tasks[t].module_ids))
    /\ tasks' = SetTask(t, [tasks[t] EXCEPT !.pc = "finalize", !.course_saved = TRUE])
    /\ resp' = [op |-> "job", task |-> t, step |-> "insert_course"]
    /\ UNCHANGED <<db_modules, processing_status, next_uuid, triggers_ok, quiz_hist>>

\* Mutant: the course id is not stored back in the status.
CompletedStatusNoCourseId(st, course_id) ==
    [st EXCEPT !.status = "completed",
               !.progress = 100,
               !.message = Message("Course created! ID: ", course_id, "")]

\* The fields the job writes after the course insert.
CompletedStatus(st, course_id) ==
    [st EXCEPT !.status = "completed",
               !.progress = 100,
               !.message = Message("Course created! ID: ", course_id, ""),
               !.course_id = course_id]

\* Mutant: the clean-up of the upload entry after the course insert is active.
job_finalizeDeletesUpload(t) ==
    /\ tasks[t].pc = "finalize"
    /\ LET u == tasks[t].upload_id IN
        /\ db_courses' = SelectSeq(db_courses, LAMBDA d : d.id # u)
        /\ processing_status' =
               [processing_status EXCEPT
                   ![u] = CompletedStatus(processing_status[u], tasks[t].course_id)]
    /\ tasks' = SetTask(t, [tasks[t] EXCEPT !.pc = "done"])
    /\ resp' = [op |-> "job", task |-> t, step |-> "finalize"]
    /\ UNCHANGED <<db_modules, next_uuid, triggers_ok, quiz_hist>>

\* The task resumes after the course insert and marks the upload completed.
job_finalize(t) ==
    /\ tasks[t].pc = "finalize"
    /\ LET u == tasks[t].upload_id IN
        processing_status' =
            [processing_status EXCEPT
                ![u] = CompletedStatus(processing_status[u], tasks[t].course_id)]
    /\ tasks' = SetTask(t, [tasks[t] EXCEPT !.pc = "done"])
    /\ resp' = [op |-> "job", task |-> t, step |-> "finalize"]
    /\ UNCHANGED <<db_courses, db_modules, next_uuid, triggers_ok, quiz_hist>>

\* ------------------------------------------------- get_processing_status
\* GET /api/processing/{upload_id}: the tracked record, or 404.
get_processing_status(upload_id) ==
    /\ resp' = [op |-> "status", id |-> upload_id,
                code |-> IF upload_id \in DOMAIN processing_status THEN 200 ELSE 404]
    /\ UNCHANGED <<db_courses, db_modules, processing_status, tasks, next_uuid,
                   triggers_ok, quiz_hist>>

\* ------------------------------------------------------------ generate_quiz
\* What processor.generate_module_quiz can return: a quiz of at most n questions;
\* question i has id i and one of the answers as its correctAnswer.
Question(id, correctAnswer) == [id |-> id, correctAnswer |-> correctAnswer]

QuizOutputs(n) ==
    {[questions |-> [i \in 1..Len(cs) |-> Question(i, cs[i])]] : cs \in SeqsUpTo(Answers, n)}

\* db.update_quiz(module_id, quiz): overwrite the quiz of the module with that id.
UpdateQuiz(mods, module_id, quiz) ==
    LET i == FindOne(mods, module_id) IN
    IF i = 0 THEN mods ELSE [mods EXCEPT ![i].quiz = quiz]

\* Mutant: the new questions are appended to the stored ones.
QuizToStoreAppend(old_quiz, generated) ==
    [questions |-> old_quiz.questions \o generated.questions]

\* The quiz generate_quiz hands to db.update_quiz: the generator's output as it is.
QuizToStore(old_quiz, generated) == generated

CallsMade(log) == LET RECURSIVE Sum(_)
                      Sum(S) == IF S = {} THEN 0
                                ELSE LET m == CHOOSE x \in S : TRUE
                                     IN Len(log[m]) + Sum(S \ {m})
                  IN Sum(DOMAIN log)

\* POST .../modules/{module_id}/generate-quiz, the generator returning `generated`.
generate_quiz(module_id, generated) ==
    LET i == FindOne(db_modules, module_id) IN
    IF i = 0
    THEN /\ resp' = [op |-> "generate_quiz", code |-> 404, module_id |-> module_id]
         /\ UNCHANGED <<db_courses, db_modules, processing_status, tasks, next_uuid,
                        triggers_ok, quiz_hist>>
    ELSE /\ CallsMade(gen_log) < MaxQuizCalls
         /\ db_modules' = UpdateQuiz(db_modules, module_id,
                                     QuizToStore(db_modules[i].quiz, generated))
         /\ gen_log' = [gen_log EXCEPT ![module_id] = Append(@, generated)]
         /\ resp' = [op |-> "generate_quiz", code |-> 200, module_id |-> module_id,
                     quiz |-> generated]
         /\ UNCHANGED <<db_courses, processing_status, tasks, next_uuid, triggers_ok,
                        submit_log, cards_generated>>

\* generate_quiz with the generator raising: the handler stops before update_quiz.
generate_quiz_generator_error(module_id) ==
    /\ FindOne(db_modules, module_id) # 0
    /\ resp' = [op |-> "generate_quiz", code |-> 500, module_id |-> module_id]
    /\ UNCHANGED <<db_courses, db_modules, processing_status, tasks, next_uuid,
                   triggers_ok, quiz_hist>>

\* -------------------------------------------------------------- submit_quiz
\* answers.get(key): the submitted answer, or None (here NoId) for a missing key.
AnswerGet(answers, key) == IF key \in DOMAIN answers THEN answers[key] ELSE NoId

\* The scoring loop: the number of questions whose submitted answer equals correctAnswer.
RECURSIVE CountCorrect(_, _)
CountCorrect(questions, answers) ==
    IF questions = <<>> THEN 0
    ELSE (IF AnswerGet(answers, Head(questions).id) = Head(questions).correctAnswer
          THEN 1 ELSE 0)
         + CountCorrect(Tail(questions), answers)

RECURSIVE Gcd(_, _)
Gcd(a, b) == IF b = 0 THEN a ELSE Gcd(b, a % b)

\* Mutant: floor division, correct // total * 100.
ScoreFloorDiv(correct, total) ==
    IF total > 0 THEN [num |-> (correct \div total) * 100, den |-> 1]
    ELSE [num |-> 0, den |-> 1]

\* (correct / total) * 100 if total > 0 else 0, as the fraction num/den in lowest terms.
Score(correct, total) ==
    IF total > 0
    THEN LET g == Gcd(correct * 100, total)
         IN [num |-> (correct * 100) \div g, den |-> total \div g]
    ELSE [num |-> 0, den |-> 1]

\* score >= 70
Passed(score) == score.num >= PassThreshold * score.den

\* The filter {"id": course_id, "user_id": "demo_user", "modules.id": module_id}:
\* the document has that id and user and an array element that is a document whose
\* id field is module_id.
ElemMatches(elem, module_id) == "id" \in DOMAIN elem /\ elem.id = module_id

FilterMatches(doc, course_id, module_id) ==
    /\ doc.id = course_id
    /\ doc.user_id = "demo_user"
    /\ "modules" \in DOMAIN doc
    /\ \E k \in 1..Len(doc.modules) : ElemMatches(doc.modules[k], module_id)

\* update_one with {"$inc": {"modules.$.quiz.attempts": 1}, "$set": {"modules.$.quiz.score": score}}:
\* the first matching document, its first matching array element; nothing when none matches.
UpdateOneAttempt(coll, course_id, module_id, score) ==
    IF \E i \in 1..Len(coll) : FilterMatches(coll[i], course_id, module_id)
    THEN LET i == CHOOSE i \in 1..Len(coll) :
                      /\ FilterMatches(coll[i], course_id, module_id)
                      /\ \A j \in 1..(i - 1) : ~FilterMatches(coll[j], course_id, module_id)
             k == CHOOSE k \in 1..Len(coll[i].modules) :
                      /\ ElemMatches(coll[i].modules[k], module_id)
                      /\ \A j \in 1..(k - 1) : ~ElemMatches(coll[i].modules[j], module_id)
             old == coll[i].modules[k].quiz
         IN [coll EXCEPT ![i].modules[k].quiz =
                [questions |-> old.questions, attempts |-> old.attempts + 1, score |-> score]]
    ELSE coll

\* The body submit_quiz returns.
SubmitResult(questions, answers) ==
    LET correct == CountCorrect(questions, answers)
        total == Len(questions)
        score == Score(correct, total)
    IN [score |-> score, correct |-> correct, total |-> total, passed |-> Passed(score)]

\* POST .../courses/{course_id}/modules/{module_id}/quiz with payload {"answers": answers}
submit_quiz(course_id, module_id, answers) ==
    LET i == FindOne(db_modules, module_id) IN
    IF i = 0 \/ ~("quiz" \in DOMAIN db_modules[i])
    THEN /\ resp' = [op |-> "submit_quiz", code |-> 404, module_id |-> module_id]
         /\ UNCHANGED <<db_courses, db_modules, processing_status, tasks, next_uuid,
                        triggers_ok, quiz_hist>>
    ELSE LET result == SubmitResult(db_modules[i].quiz.questions, answers) IN
         /\ CallsMade(submit_log) < MaxSubmits
         /\ db_courses' = UpdateOneAttempt(db_courses, course_id, module_id, result.score)
         /\ submit_log' = [submit_log EXCEPT ![module_id] = Append(@, result.score)]
         /\ resp' = [op |-> "submit_quiz", code |-> 200, course_id |-> course_id,
                     module_id |-> module_id, answers |-> answers, body |-> result]
         /\ UNCHANGED <<db_modules, processing_status, tasks, next_uuid, triggers_ok,
                        gen_log, cards_generated>>

\* The answer maps over question ids 1..n: any subset of the ids as keys.
AnswerMaps(n) == UNION {[K -> Answers] : K \in SUBSET (1..n)}

\* ------------------------------------------------------ generate_flashcards
\* What processor.generate_module_flashcards can return: at most n cards.
FlashcardOutputs(n) == {[i \in 1..k |-> [id |-> i]] : k \in 0..n}

\* db.update_flashcards(module_id, flashcards): overwrite the flashcards of the module with that id.
UpdateFlashcards(mods, module_id, flashcards) ==
    LET i == FindOne(mods, module_id) IN
    IF i = 0 THEN mods ELSE [mods EXCEPT ![i].flashcards = flashcards]

\* POST .../modules/{module_id}/generate-flashcards, the generator returning `flashcards`.
generate_flashcards(module_id, flashcards) ==
    IF FindOne(db_modules, module_id) = 0
    THEN /\ resp' = [op |-> "generate_flashcards", code |-> 404, module_id |-> module_id]
         /\ UNCHANGED <<db_courses, db_modules, processing_status, tasks, next_uuid,
                        triggers_ok, quiz_hist>>
    ELSE /\ db_modules' = UpdateFlashcards(db_modules, module_id, flashcards)
         /\ cards_generated' = cards_generated \cup {module_id}
         /\ resp' = [op |-> "generate_flashcards", code |-> 200, module_id |-> module_id]
         /\ UNCHANGED <<db_courses, processing_status, tasks, next_uuid, triggers_ok,
                        gen_log, submit_log>>

\* --------------------------------------------------------------- get_course
\* collection.find_one({"id": id, "user_id": "demo_user"}): index of the first match, 0 if none.
FindOneOwned(coll, id) ==
    IF \E i \in 1..Len(coll) : coll[i].id = id /\ coll[i].user_id = "demo_user"
    THEN CHOOSE i \in 1..Len(coll) :
             /\ coll[i].id = id /\ coll[i].user_id = "demo_user"
             /\ \A j \in 1..(i - 1) : ~(coll[j].id = id /\ coll[j].user_id = "demo_user")
    ELSE 0

\* course.get("modules", [])
ModulesField(doc) == IF "modules" \in DOMAIN doc THEN doc.modules ELSE <<>>

\* module.setdefault("flashcards", []); module.setdefault("quiz", {"questions": []})
WithDefaults(module) ==
    [f \in (DOMAIN module) \cup {"flashcards", "quiz"} |->
        IF f \in DOMAIN module THEN module[f]
        ELSE IF f = "flashcards" THEN <<>> ELSE [questions |-> <<>>]]

\* Mutant: the expanded modules are collected in reverse order.
RECURSIVE ExpandModulesReversed(_, _)
ExpandModulesReversed(elems, mods) ==
    IF elems = <<>> THEN <<>>
    ELSE LET j == FindOne(mods, Head(elems).str)
             rest == ExpandModulesReversed(Tail(elems), mods)
         IN IF j = 0 THEN rest ELSE rest \o <<WithDefaults(mods[j])>>

\* The expansion loop: each stored element is the id string the lookup uses;
\* an id with no module document is skipped.
RECURSIVE ExpandModules(_, _)
ExpandModules(elems, mods) ==
    IF elems = <<>> THEN <<>>
    ELSE LET j == FindOne(mods, Head(elems).str)
             rest == ExpandModules(Tail(elems), mods)
         IN IF j = 0 THEN rest ELSE <<WithDefaults(mods[j])>> \o rest

\* Which record get_course takes for a course: the first with the id in the user scope.
CourseLookup(coll, course_id) == FindOneOwned(coll, course_id)

\* GET /api/courses/{course_id}
get_course(course_id) ==
    /\ LET i == CourseLookup(db_courses, course_id) IN
       resp' = IF i = 0
               THEN [op |-> "get_course", code |-> 404, id |-> course_id]
               ELSE [op |-> "get_course", code |-> 200, id |-> course_id,
                     is_upload |-> IsUpload(db_courses[i]),
                     modules |-> ExpandModules(ModulesField(db_courses[i]), db_modules)]
    /\ UNCHANGED <<db_courses, db_modules, processing_status, tasks, next_uuid,
                   triggers_ok, quiz_hist>>

\* ------------------------------------------------------------ export_course
\* format not in ["pdf", "pptx", "notion"]
SupportedFormats == {"pdf", "pptx", "notion"}

ExportFormats == SupportedFormats \cup {"docx"}

\* Mutant: the course is looked up before the format is checked.
export_courseLookupFirst(course_id, format) ==
    /\ resp' = [op |-> "export", id |-> course_id, format |-> format,
                code |-> IF FindOneOwned(db_courses, course_id) = 0 THEN 404
                         ELSE IF format \notin SupportedFormats THEN 400
                         ELSE 200]
    /\ UNCHANGED <<db_courses, db_modules, processing_status, tasks, next_uuid,
                   triggers_ok, quiz_hist>>

\* GET /api/courses/{course_id}/export/{format}
export_course(course_id, format) ==
    /\ resp' = [op |-> "export", id |-> course_id, format |-> format,
                code |-> IF format \notin SupportedFormats THEN 400
                         ELSE IF FindOneOwned(db_courses, course_id) = 0 THEN 404
                         ELSE 200]
    /\ UNCHANGED <<db_courses, db_modules, processing_status, tasks, next_uuid,
                   triggers_ok, quiz_hist>>

\* ----------------------------------------------------------------- Next
Next ==
    \/ upload_whitepaper_empty
    \/ upload_whitepaper_store_error
    \/ upload_whitepaper
    \/ \E id \in RequestIds : design_course(id)
    \/ \E t \in 1..Len(tasks) : job_store_error(t)
    \/ \E t \in 1..Len(tasks) : job_fetch_upload(t)
    \/ \E t \in 1..Len(tasks) : job_generator_error(t)
    \/ \E t \in 1..Len(tasks) : \E ms \in SeqsUpTo(ModIds, MaxMods) : job_generate(t, ms)
    \/ \E t \in 1..Len(tasks) : job_insert_module(t)
    \/ \E t \in 1..Len(tasks) : job_insert_course(t)
    \/ \E t \in 1..Len(tasks) : job_finalize(t)
    \/ \E id \in RequestIds : get_processing_status(id)

Spec == Init /\ [][Next]_vars

\* ---------------------------------------------------------------- NextQuiz
\* The on-demand generator and the scorer at work beside one run of the pipeline
\* that meets no error.
AllTasksEnded == \A t \in 1..Len(tasks) : tasks[t].pc \in {"done", "failed"}

CourseIds == {db_courses[i].id : i \in {j \in 1..Len(db_courses) : IsCourse(db_courses[j])}}

NextQuiz ==
    \/ db_courses = <<>> /\ upload_whitepaper
    \/ \E id \in RequestIds : tasks = <<>> /\ UploadFound(db_courses, id) /\ design_course(id)
    \/ \E t \in 1..Len(tasks) : job_fetch_upload(t)
    \/ \E t \in 1..Len(tasks) : \E ms \in SeqsUpTo(ModIds, MaxMods) : job_generate(t, ms)
    \/ \E t \in 1..Len(tasks) : job_insert_module(t)
    \/ \E t \in 1..Len(tasks) : job_insert_course(t)
    \/ \E t \in 1..Len(tasks) : job_finalize(t)
    \/ \E m \in ModIds : \E q \in QuizOutputs(MaxGenQ) : generate_quiz(m, q)
    \/ \E m \in ModIds : generate_quiz_generator_error(m)
    \/ \E c \in CourseIds : \E m \in ModIds : \E a \in AnswerMaps(MaxGenQ) : submit_quiz(c, m, a)

SpecQuiz == Init /\ [][NextQuiz]_vars

\* --------------------------------------------------------------- NextScore
\* The scorer on every quiz of at most MaxQuestions questions and every answer map:
\* one upload, one run with a single module, one generated quiz, one submission.
NextScore ==
    \/ db_courses = <<>> /\ upload_whitepaper
    \/ \E id \in RequestIds : tasks = <<>> /\ UploadFound(db_courses, id) /\ design_course(id)
    \/ \E t \in 1..Len(tasks) : job_fetch_upload(t)
    \/ \E t \in 1..Len(tasks) : \E m \in ModIds : job_generate(t, <<m>>)
    \/ \E t \in 1..Len(tasks) : job_insert_module(t)
    \/ \E t \in 1..Len(tasks) : job_insert_course(t)
    \/ \E t \in 1..Len(tasks) : job_finalize(t)
    \/ \E m \in ModIds : \E q \in QuizOutputs(MaxQuestions) :
           CallsMade(gen_log) = 0 /\ AllTasksEnded /\ generate_quiz(m, q)
    \/ \E c \in CourseIds : \E m \in ModIds : \E a \in AnswerMaps(MaxQuestions) :
           CallsMade(submit_log) = 0 /\ submit_quiz(c, m, a)

SpecScore == Init /\ [][NextScore]_vars

\* -------------------------------------------------------------- NextCourse
\* Reading courses and generating on demand beside the runs that the triggers
\* of one upload start; the runs may overlap and meet no error, and the
\* generators are called while no run is in flight. The requests name the ids
\* drawn so far and one id no record has.
KnownIds == {id \in RequestIds : id <= next_uuid}

NextCourse ==
    \/ db_courses = <<>> /\ upload_whitepaper
    \/ \E id \in KnownIds : design_course(id)
    \/ \E t \in 1..Len(tasks) : job_fetch_upload(t)
    \/ \E t \in 1..Len(tasks) : \E ms \in SeqsUpTo(ModIds, MaxMods) : job_generate(t, ms)
    \/ \E t \in 1..Len(tasks) : job_insert_module(t)
    \/ \E t \in 1..Len(tasks) : job_insert_course(t)
    \/ \E t \in 1..Len(tasks) : job_finalize(t)
    \/ \E id \in KnownIds : get_course(id)
    \/ \E m \in ModIds : \E q \in QuizOutputs(MaxGenQ) :
           AllTasksEnded /\ CallsMade(gen_log) = 0 /\ generate_quiz(m, q)
    \/ \E m \in ModIds : \E c \in FlashcardOutputs(MaxGenQ) :
           AllTasksEnded /\ cards_generated = {} /\ generate_flashcards(m, c)

SpecCourse == Init /\ [][NextCourse]_vars

\* --------------------------------------------------------------- NextFrame
\* Every operation that could touch a stored record or the status dict beside
\* the upload itself: triggers, runs that succeed or fail one after the other,
\* the on-demand generators and the export.
NextFrame ==
    \/ db_courses = <<>> /\ upload_whitepaper
    \/ \E id \in KnownIds : AllTasksEnded /\ design_course(id)
    \/ \E t \in 1..Len(tasks) : job_store_error(t)
    \/ \E t \in 1..Len(tasks) : job_fetch_upload(t)
    \/ \E t \in 1..Len(tasks) : job_generator_error(t)
    \/ \E t \in 1..Len(tasks) : \E ms \in SeqsUpTo(ModIds, MaxMods) : job_generate(t, ms)
    \/ \E t \in 1..Len(tasks) : job_insert_module(t)
    \/ \E t \in 1..Len(tasks) : job_insert_course(t)
    \/ \E t \in 1..Len(tasks) : job_finalize(t)
    \/ \E id \in KnownIds : \E f \in ExportFormats : export_course(id, f)
    \/ \E m \in ModIds : \E q \in QuizOutputs(MaxGenQ) :
           CallsMade(gen_log) = 0 /\ generate_quiz(m, q)
    \/ \E m \in ModIds : \E c \in FlashcardOutputs(MaxGenQ) :
           cards_generated = {} /\ generate_flashcards(m, c)

SpecFrame == Init /\ [][NextFrame]_vars

\* -------------------------------------------------------------- NextSingle
\* The pipeline under the single-trigger assumption: design_course is not
\* called for an id while a job for that id is in flight.
InFlight(id) ==
    \E t \in 1..Len(tasks) : tasks[t].upload_id = id /\ tasks[t].pc \notin {"done", "failed"}

NextSingle ==
    \/ upload_whitepaper_empty
    \/ upload_whitepaper_store_error
    \/ upload_whitepaper
    \/ \E id \in RequestIds : ~InFlight(id) /\ design_course(id)
    \/ \E t \in 1..Len(tasks) : job_store_error(t)
    \/ \E t \in 1..Len(tasks) : job_fetch_upload(t)
    \/ \E t \in 1..Len(tasks) : job_generator_error(t)
    \/ \E t \in 1..Len(tasks) : \E ms \in SeqsUpTo(ModIds, MaxMods) : job_generate(t, ms)
    \/ \E t \in 1..Len(tasks) : job_insert_module(t)
    \/ \E t \in 1..Len(tasks) : job_insert_course(t)
    \/ \E t \in 1..Len(tasks) : job_finalize(t)
    \/ \E id \in RequestIds : get_processing_status(id)

SpecSingle == Init /\ [][NextSingle]_vars

\* ---------------------------------------------------------------- NextLive
\* The triggers and runs of one upload under a fair event loop: a task that
\* can take its next step (the store or generator call it awaits returns or
\* raises) eventually takes it.
JobStep(t) ==
    /\ t \in 1..Len(tasks)
    /\ \/ job_store_error(t)
       \/ job_fetch_upload(t)
       \/ job_generator_error(t)
       \/ \E ms \in SeqsUpTo(ModIds, MaxMods) : job_generate(t, ms)
       \/ job_insert_module(t)
       \/ job_insert_course(t)
       \/ job_finalize(t)

NextLive ==
    \/ db_courses = <<>> /\ upload_whitepaper
    \/ \E id \in KnownIds : design_course(id)
    \/ \E t \in 1..MaxRuns : JobStep(t)

SpecLive == Init /\ [][NextLive]_vars /\ \A t \in 1..MaxRuns : WF_vars(JobStep(t))

\* ------------------------------------------------------------------ claims
CourseIdx == {i \in 1..Len(db_courses) : "objectives" \in DOMAIN db_courses[i]}

UploadIds ==
    {db_courses[i].id : i \in {j \in 1..Len(db_courses) :
                                   "type" \in DOMAIN db_courses[j] /\ db_courses[j].type = "pdf"}}

\* The module id one element of Course.modules refers to.
ElemRef(elem) == IF "str" \in DOMAIN elem THEN elem.str ELSE elem.id

CoursesWithId(c) == Cardinality({i \in CourseIdx : db_courses[i].id = c})

ModulesOfCourse(c) == Cardinality({j \in 1..Len(db_modules) : db_modules[j].course_id = c})

TasksOf(u) == {t \in 1..Len(tasks) : tasks[t].upload_id = u}

\* The store holds what the tasks wrote and nothing else.
StoreIsTasksWrites ==
    /\ \A t \in 1..Len(tasks) :
          tasks[t].course_id # NoId =>
              /\ ModulesOfCourse(tasks[t].course_id) = tasks[t].inserted
              /\ CoursesWithId(tasks[t].course_id) = (IF tasks[t].course_saved THEN 1 ELSE 0)
    /\ \A j \in 1..Len(db_modules) :
          \E t \in 1..Len(tasks) : tasks[t].course_id = db_modules[j].course_id
    /\ \A i \in CourseIdx :
          \E t \in 1..Len(tasks) : tasks[t].course_id = db_courses[i].id

\* C1: every persisted Course references only module ids for which a Module
\* record is already in db.modules, and a run has inserted every one of its
\* modules (records carrying its course id) before its Course is in the store.
C1_WriteOrdering ==
    /\ \A i \in CourseIdx : \A k \in 1..Len(db_courses[i].modules) :
          /\ \E j \in 1..Len(db_modules) :
                db_modules[j].id = ElemRef(db_courses[i].modules[k])
          /\ \E j \in 1..Len(db_modules) :
                /\ db_modules[j].id = ElemRef(db_courses[i].modules[k])
                /\ db_modules[j].course_id = db_courses[i].id
    /\ \A t \in 1..Len(tasks) :
          tasks[t].course_saved => tasks[t].inserted = Len(tasks[t].module_ids)

\* C1 witness: a Course with two modules is stored while another run has failed
\* on a store error after its first module insert.
C1_Witness ==
    /\ \E i \in CourseIdx : Len(db_courses[i].modules) >= 2
    /\ \E t \in 1..Len(tasks) :
          tasks[t].pc = "failed" /\ tasks[t].err = "store error" /\ tasks[t].inserted = 1

\* C2: every successful design_course call has started exactly one run (no
\* deduplication), and the runs that have succeeded have each persisted one
\* Course, under pairwise distinct course ids.
C2_NoDeduplication ==
    /\ Len(tasks) = triggers_ok
    /\ \A t \in 1..Len(tasks) :
          tasks[t].pc = "done" => CoursesWithId(tasks[t].course_id) = 1
    /\ \A t1, t2 \in 1..Len(tasks) :
          (t1 # t2 /\ tasks[t1].pc = "done" /\ tasks[t2].pc = "done")
              => tasks[t1].course_id # tasks[t2].course_id

\* C2 witness: two runs of the same upload have both succeeded, the second
\* trigger having returned while the first run was still in flight (its run
\* was the last thing to finish, the second trigger's run finished before).
C2_Witness ==
    /\ Len(tasks) >= 2
    /\ tasks[1].upload_id = tasks[2].upload_id
    /\ tasks[1].pc = "done" /\ tasks[2].pc = "done"
    /\ resp = [op |-> "job", task |-> 1, step |-> "finalize"]
    /\ Cardinality(CourseIdx) = 2

\* C3: when design_course returns 200 the tracked status of the id is processing
\* with progress 10, and the task it scheduled has executed nothing: it is at
\* its start, has no course id, has called no generator and written nothing.
C3_TriggerReturnsFirst ==
    (resp.op = "design" /\ resp.code = 200) =>
        /\ resp.id \in DOMAIN processing_status
        /\ processing_status[resp.id].status = "processing"
        /\ processing_status[resp.id].progress = 10
        /\ Len(tasks) >= 1
        /\ LET job == tasks[Len(tasks)] IN
              /\ job.upload_id = resp.id
              /\ job.pc = "start"
              /\ job.course_id = NoId
              /\ job.module_ids = <<>>
              /\ job.inserted = 0
              /\ ~job.course_saved

\* C3 witness: a trigger returns while an earlier run of the same upload is in
\* flight and has already moved the progress to 30.
C3_Witness ==
    /\ resp.op = "design" /\ resp.code = 200
    /\ Len(tasks) = 2
    /\ tasks[1].upload_id = resp.id
    /\ tasks[1].pc = "generate"

\* C4: an id with no upload record of type pdf is never tracked and never has a
\* job, get_processing_status answers 404 for it, and a design_course call that
\* answers 404 changes neither the status map nor the tasks.
C4_NoUploadState ==
    \A id \in RequestIds :
        id \notin UploadIds =>
            /\ id \notin DOMAIN processing_status
            /\ TasksOf(id) = {}
            /\ (resp.op = "status" /\ resp.id = id) => resp.code = 404

C4_TriggerNotFound ==
    /\ []C4_NoUploadState
    /\ [][(resp'.op = "design" /\ resp'.code = 404)
            => (/\ resp'.id \notin UploadIds
                /\ UNCHANGED <<processing_status, tasks, db_courses, db_modules>>)]_vars

\* C4 witness: design_course was called with the id of a finalized Course (a
\* record of db.courses that is no upload) and answered 404.
C4_Witness ==
    /\ resp.op = "design" /\ resp.code = 404
    /\ \E i \in CourseIdx : db_courses[i].id = resp.id

\* C5: a run whose generator call raised has status failed, progress 0 and the
\* error text in the message when it ends, and has written nothing: it has no
\* course id, no module insert and no course insert, and every record of the
\* store belongs to another run.
C5_GeneratorFailure ==
    /\ StoreIsTasksWrites
    /\ \A t \in 1..Len(tasks) :
          (tasks[t].pc = "failed" /\ tasks[t].err = "generator error") =>
              /\ tasks[t].course_id = NoId
              /\ tasks[t].inserted = 0
              /\ ~tasks[t].course_saved
    /\ (resp.op = "job" /\ resp.step = "except" /\ tasks[resp.task].err = "generator error") =>
          LET st == processing_status[tasks[resp.task].upload_id] IN
              /\ st.status = "failed"
              /\ st.progress = 0
              /\ st.message.err = "generator error"

\* C5 witness: the run of a tracked upload has just ended on a generator error.
C5_Witness ==
    /\ resp.op = "job" /\ resp.step = "except"
    /\ tasks[resp.task].err = "generator error"
    /\ tasks[resp.task].pc = "failed"

\* C6: a run that has succeeded has exactly one Course record and one Module
\* record per skeleton in the store; when it ends, the status of its upload is
\* completed with progress 100 and the id of that Course; a failed run has no
\* Course record.
C6_SuccessPersistsOnce ==
    /\ \A t \in 1..Len(tasks) :
          tasks[t].pc = "done" =>
              /\ CoursesWithId(tasks[t].course_id) = 1
              /\ ModulesOfCourse(tasks[t].course_id) = Len(tasks[t].module_ids)
    /\ \A t \in 1..Len(tasks) :
          tasks[t].pc = "failed" =>
              /\ ~tasks[t].course_saved
              /\ CoursesWithId(tasks[t].course_id) = 0
    /\ (resp.op = "job" /\ resp.step = "finalize") =>
          LET st == processing_status[tasks[resp.task].upload_id] IN
              /\ tasks[resp.task].pc = "done"
              /\ st.status = "completed"
              /\ st.progress = 100
              /\ st.course_id = tasks[resp.task].course_id
              /\ st.message.course_id = tasks[resp.task].course_id
              /\ CoursesWithId(st.course_id) = 1

\* C6 witness: a run with two module skeletons has just completed.
C6_Witness ==
    /\ resp.op = "job" /\ resp.step = "finalize"
    /\ Len(tasks[resp.task].module_ids) = 2
    /\ processing_status[tasks[resp.task].upload_id].status = "completed"

\* C7: an upload that no design_course call has triggered yet is tracked as
\* uploaded with progress 0, and get_processing_status answers 200 for it; an
\* empty upload answers 400 and adds neither a record nor a status entry.
C7_UntriggeredState ==
    \A u \in UploadIds :
        TasksOf(u) = {} =>
            /\ u \in DOMAIN processing_status
            /\ processing_status[u].status = "uploaded"
            /\ processing_status[u].progress = 0
            /\ (resp.op = "status" /\ resp.id = u) => resp.code = 200

C7_UploadedStatus ==
    /\ []C7_UntriggeredState
    /\ [][(resp'.op = "upload" /\ resp'.code = 400)
            => UNCHANGED <<db_courses, db_modules, processing_status, next_uuid>>]_vars
    /\ [][(resp'.op = "upload" /\ resp'.code = 200)
            => (/\ resp'.id \notin UploadIds
                /\ resp'.id \in UploadIds'
                /\ processing_status'[resp'.id].status = "uploaded"
                /\ processing_status'[resp'.id].progress = 0)]_vars

\* C7 witness: the status of an upload nobody has triggered is read while a run
\* of another upload is in flight.
C7_Witness ==
    /\ resp.op = "status" /\ resp.code = 200
    /\ resp.id \in UploadIds
    /\ TasksOf(resp.id) = {}
    /\ \E t \in 1..Len(tasks) : tasks[t].pc = "modules"

\* The module document a lookup by id returns; used where one exists.
ModuleById(m) == db_modules[FindOne(db_modules, m)]

\* The quiz of module m as the store holds it for submissions: the one embedded
\* in a Course whose modules array has a document with that id, and the one of
\* the Module record when no Course embeds it.
StoredQuiz(m) ==
    IF \E i \in CourseIdx : \E k \in 1..Len(db_courses[i].modules) :
           "id" \in DOMAIN db_courses[i].modules[k] /\ db_courses[i].modules[k].id = m
    THEN LET i == CHOOSE i \in CourseIdx : \E k \in 1..Len(db_courses[i].modules) :
                      "id" \in DOMAIN db_courses[i].modules[k] /\ db_courses[i].modules[k].id = m
             k == CHOOSE k \in 1..Len(db_courses[i].modules) :
                      "id" \in DOMAIN db_courses[i].modules[k] /\ db_courses[i].modules[k].id = m
         IN db_courses[i].modules[k].quiz
    ELSE ModuleById(m).quiz

StoredAttempts(m) == IF "attempts" \in DOMAIN StoredQuiz(m) THEN StoredQuiz(m).attempts ELSE 0

\* C8: after n submit_quiz calls for a module of a stored course, the stored
\* attempts counter of the module's quiz is n and the stored score is the score
\* the n-th call returned.
C8_AttemptsCounted ==
    \A m \in ModIds :
        Len(submit_log[m]) > 0 =>
            /\ StoredAttempts(m) = Len(submit_log[m])
            /\ "score" \in DOMAIN StoredQuiz(m)
            /\ StoredQuiz(m).score = submit_log[m][Len(submit_log[m])]

\* The number of questions answered as stored, counted over the positions.
Matches(questions, answers) ==
    Cardinality({i \in 1..Len(questions) :
                    /\ questions[i].id \in DOMAIN answers
                    /\ answers[questions[i].id] = questions[i].correctAnswer})

C10_StoredQuizIsLastOutput ==
    \A m \in ModIds :
        /\ Len(gen_log[m]) >= 1 =>
              /\ FindOne(db_modules, m) # 0
              /\ ModuleById(m).quiz = gen_log[m][Len(gen_log[m])]
              /\ Len(ModuleById(m).quiz.questions) = Len(gen_log[m][Len(gen_log[m])].questions)
        /\ (Len(gen_log[m]) = 0 /\ FindOne(db_modules, m) # 0) =>
              ModuleById(m).quiz.questions = <<>>

C10_QuizReplaced ==
    /\ []C10_StoredQuizIsLastOutput
    /\ [][(resp'.op = "generate_quiz" /\ resp'.code = 404)
            => (/\ FindOne(db_modules, resp'.module_id) = 0
                /\ UNCHANGED <<db_modules, db_courses, gen_log>>)]_vars

\* C10 witness: two calls on one module, each with a non-empty output; appending
\* would leave two questions, the stored quiz has one.
C10_Witness ==
    \E m \in ModIds :
        /\ Len(gen_log[m]) = 2
        /\ Len(gen_log[m][1].questions) = 1
        /\ Len(gen_log[m][2].questions) = 1
        /\ Len(ModuleById(m).quiz.questions) = 1

\* No on-demand generation has stored anything yet.
NothingGenerated == (\A m \in ModIds : gen_log[m] = <<>>) /\ cards_generated = {}

\* The tasks that ran to the end without an error and made the course c.
DoneTasksOf(c) == {t \in 1..Len(tasks) : tasks[t].pc = "done" /\ tasks[t].course_id = c}

\* C11: when get_course(C) returns for the course C of a run that completed,
\* and nothing has been generated on demand, the modules list of the answer has
\* one entry per skeleton the generator returned for that run, in the same
\* order, each with an empty flashcards list and an empty quiz.questions list.
C11_ExpandedModules ==
    (resp.op = "get_course" /\ NothingGenerated) =>
        \A t \in DoneTasksOf(resp.id) :
            /\ resp.code = 200
            /\ Len(resp.modules) = Len(tasks[t].module_ids)
            /\ \A k \in 1..Len(resp.modules) :
                  /\ resp.modules[k].id = tasks[t].module_ids[k]
                  /\ resp.modules[k].flashcards = <<>>
                  /\ resp.modules[k].quiz.questions = <<>>

\* get_course has returned the two different modules of a completed run.
C11_Witness ==
    /\ resp.op = "get_course"
    /\ NothingGenerated
    /\ \E t \in DoneTasksOf(resp.id) :
          /\ Len(tasks[t].module_ids) = 2
          /\ tasks[t].module_ids[1] # tasks[t].module_ids[2]
          /\ Len(resp.modules) = 2

\* C12: get_course answers 404 for every id that is not the id of a finalized
\* Course record, in particular for the id of a bare upload record.
C12_NotFoundUnlessCourse ==
    (resp.op = "get_course" /\ resp.id \notin CourseIds) => resp.code = 404

\* The ids of the records of the courses collection in the user scope.
OwnedIds == {db_courses[i].id : i \in {j \in 1..Len(db_courses) : db_courses[j].user_id = "demo_user"}}

\* C13 as stated: export_course answers 400 for a format outside
\* {pdf, pptx, notion} and the acknowledgment for every supported format.
C13_SupportedAcknowledged ==
    resp.op = "export" =>
        resp.code = IF resp.format \in {"pdf", "pptx", "notion"} THEN 200 ELSE 400

\* C13 amended: export_course answers 400 for a format outside {pdf, pptx, notion}
\* whether or not a record has the id; for a supported format it answers the
\* acknowledgment when a record of the courses collection has the id and 404
\* when none has; in every case the courses collection, the modules collection
\* and the status dict are left unchanged.
C13_Export ==
    /\ [](resp.op = "export" =>
            resp.code = IF resp.format \notin {"pdf", "pptx", "notion"} THEN 400
                        ELSE IF resp.id \in OwnedIds THEN 200 ELSE 404)
    /\ [][resp'.op = "export" => UNCHANGED <<db_courses, db_modules, processing_status>>]_vars

\* An unsupported format was refused for an id no record has, while a Course is stored.
C13_Witness ==
    /\ resp.op = "export"
    /\ resp.format = "docx"
    /\ resp.code = 400
    /\ resp.id \notin OwnedIds
    /\ CourseIds # {}

TerminalStatus == {"completed", "failed"}

\* The status, progress or course_id of the tracked record a differs from b's.
RecordMoved(a, b) ==
    a.status # b.status \/ a.progress # b.progress \/ a.course_id # b.course_id

\* The moves of the status field along uploaded -> processing -> {completed | failed},
\* and back to processing from a terminal status.
StatusPath ==
    {<<"uploaded", "processing">>, <<"processing", "completed">>, <<"processing", "failed">>,
     <<"completed", "processing">>, <<"failed", "processing">>}

\* The step is a successful design_course call for id.
TriggerStepFor(id) == resp'.op = "design" /\ resp'.code = 200 /\ resp'.id = id

\* C14 as stated: in every step the status of a tracked id stays or moves along
\* uploaded -> processing -> {completed | failed}, and a record that is
\* completed or failed changes its status, progress or course_id only in a
\* successful design_course call for that id, overlapping triggers included.
C14_TerminalStable ==
    [][\A id \in DOMAIN processing_status :
          LET a == processing_status[id]
              b == processing_status'[id]
          IN /\ a.status # b.status => <<a.status, b.status>> \in StatusPath
             /\ (a.status \in TerminalStatus /\ RecordMoved(a, b)) => TriggerStepFor(id)]_vars

\* C14 amended: the same, for the records of ids that have no background job
\* in flight; a completed or failed record whose id still has a job in flight
\* (a trigger that overlapped another) can be rewritten by that job's steps.
C14_TerminalStableNoOverlap ==
    [][\A id \in DOMAIN processing_status :
          LET a == processing_status[id]
              b == processing_status'[id]
          IN /\ (a.status # b.status /\ ~(a.status \in TerminalStatus /\ InFlight(id)))
                    => <<a.status, b.status>> \in StatusPath
             /\ (a.status \in TerminalStatus /\ ~InFlight(id) /\ RecordMoved(a, b))
                    => (TriggerStepFor(id) /\ b.status = "processing")]_vars

\* A run of one upload has just completed while the record of another upload,
\* which has no job in flight, is failed.
C14_Witness ==
    /\ resp.op = "job"
    /\ resp.step = "finalize"
    /\ \E v \in DOMAIN processing_status :
          /\ v # tasks[resp.task].upload_id
          /\ processing_status[v].status = "failed"
          /\ ~InFlight(v)

\* C16: with no design_course call for an id while a job for it is in flight,
\* every tracked record has progress 0 when uploaded, 10 or 30 when processing,
\* 100 and a course_id when completed, 0 when failed; and right after the
\* fetch step of a run the record is processing with progress 30.
C16_StatusProgress ==
    /\ \A id \in DOMAIN processing_status :
          LET st == processing_status[id] IN
          /\ st.status \in {"uploaded", "processing", "completed", "failed"}
          /\ st.status = "uploaded" => st.progress = 0
          /\ st.status = "processing" => st.progress \in {10, 30}
          /\ st.status = "completed" => (st.progress = 100 /\ st.course_id # NoId)
          /\ st.status = "failed" => st.progress = 0
    /\ (resp.op = "job" /\ resp.step = "fetch") =>
          LET st == processing_status[tasks[resp.task].upload_id] IN
          st.status = "processing" /\ st.progress = 30

\* The fetch step of a second run of an upload has just been taken, after the
\* first run completed.
C16_Witness ==
    /\ resp.op = "job"
    /\ resp.step = "fetch"
    /\ \E t \in 1..Len(tasks) :
          /\ t # resp.task
          /\ tasks[t].upload_id = tasks[resp.task].upload_id
          /\ tasks[t].pc = "done"
    /\ processing_status[tasks[resp.task].upload_id].progress = 30

\* C15: under a fair event loop a record that a trigger set to processing
\* eventually is completed or failed; a completed or failed record stays
\* completed or failed in every step that is not a successful design_course
\* call for its id; and the number of tasks ever created equals the number of
\* successful design_course calls.
C15_Liveness ==
    /\ \A id \in Uuids :
          (id \in DOMAIN processing_status /\ processing_status[id].status = "processing")
              ~> (id \in DOMAIN processing_status
                      /\ processing_status[id].status \in {"completed", "failed"})
    /\ [][\A id \in DOMAIN processing_status :
             (processing_status[id].status \in {"completed", "failed"} /\ ~TriggerStepFor(id))
                 => processing_status'[id].status \in {"completed", "failed"}]_vars
    /\ [](Len(tasks) = triggers_ok)

\* Two triggers of one upload were answered, both runs have ended, one of them
\* with an error, and the record is terminal.
C15_Witness ==
    /\ triggers_ok = 2
    /\ \A t \in 1..Len(tasks) : tasks[t].pc \in {"done", "failed"}
    /\ \E t \in 1..Len(tasks) : tasks[t].pc = "failed"
    /\ \E t \in 1..Len(tasks) : tasks[t].pc = "done"
    /\ \A id \in DOMAIN processing_status :
          processing_status[id].status \in {"completed", "failed"}

\* The tasks that ended in the except branch.
FailedTasks == {t \in 1..Len(tasks) : tasks[t].pc = "failed"}

\* C17: when a run raises, the except branch leaves the record failed with
\* progress 0; a run that failed has no Course record in the store, and the
\* modules it inserted before the failure are all still there: no step removes
\* or reorders a stored module.
C17_FailureNoRollback ==
    /\ []((resp.op = "job" /\ resp.step = "except") =>
             /\ resp.task \in FailedTasks
             /\ processing_status[tasks[resp.task].upload_id].status = "failed"
             /\ processing_status[tasks[resp.task].upload_id].progress = 0)
    /\ [](\A t \in FailedTasks :
             /\ ~tasks[t].course_saved
             /\ CoursesWithId(tasks[t].course_id) = 0
             /\ ModulesOfCourse(tasks[t].course_id) = tasks[t].inserted)
    /\ [][/\ Len(db_modules') >= Len(db_modules)
          /\ SubSeq(db_modules', 1, Len(db_modules)) = db_modules]_vars

\* A run has just failed on its second module insert: the first module is stored.
C17_Witness ==
    /\ resp.op = "job"
    /\ resp.step = "except"
    /\ tasks[resp.task].pc = "failed"
    /\ tasks[resp.task].err = "store error"
    /\ Len(tasks[resp.task].module_ids) = 2
    /\ tasks[resp.task].inserted = 1
    /\ ModulesOfCourse(tasks[resp.task].course_id) = 1

\* The record is an upload record as upload_whitepaper wrote it for the id u.
UnchangedUpload(doc, u) ==
    /\ DOMAIN doc = {"id", "user_id", "type", "status"}
    /\ doc.id = u
    /\ doc.user_id = "demo_user"
    /\ doc.type = "pdf"
    /\ doc.status = "uploaded"

\* C18: no step changes or removes a stored upload record; the Course of a run
\* that completed has an id different from the upload id, and the courses
\* collection then holds both the upload record as written and the Course.
C18_UploadKept ==
    /\ [][\A i \in 1..Len(db_courses) :
             UnchangedUpload(db_courses[i], db_courses[i].id) =>
                 /\ i <= Len(db_courses')
                 /\ db_courses'[i] = db_courses[i]]_vars
    /\ [](\A t \in 1..Len(tasks) :
             tasks[t].pc = "done" =>
                 /\ tasks[t].course_id # tasks[t].upload_id
                 /\ \E i \in 1..Len(db_courses) : UnchangedUpload(db_courses[i], tasks[t].upload_id)
                 /\ \E i \in CourseIdx : db_courses[i].id = tasks[t].course_id)

\* After a failed and a completed run of the upload, an on-demand quiz and an
\* export, the upload record and the Course are both stored.
C18_Witness ==
    /\ resp.op = "export"
    /\ resp.code = 200
    /\ CallsMade(gen_log) = 1
    /\ \E t \in 1..Len(tasks) : tasks[t].pc = "failed"
    /\ \E t \in 1..Len(tasks) :
          /\ tasks[t].pc = "done"
          /\ \E i \in 1..Len(db_courses) : UnchangedUpload(db_courses[i], tasks[t].upload_id)
          /\ \E i \in CourseIdx : db_courses[i].id = tasks[t].course_id

\* The module ids the Course record at index i of db_courses refers to.
ModuleRefs(i) == {ElemRef(db_courses[i].modules[k]) : k \in 1..Len(db_courses[i].modules)}

\* C19: for every stored Course c and every module id m in c.modules, the
\* module a lookup by id m returns has course_id = c.id, and no two Courses
\* refer to the same module id.
C19_ModuleOwnership ==
    /\ \A i \in CourseIdx : \A m \in ModuleRefs(i) :
          LET j == FindOne(db_modules, m) IN
          j # 0 => db_modules[j].course_id = db_courses[i].id
    /\ \A i1, i2 \in CourseIdx : i1 # i2 => ModuleRefs(i1) \cap ModuleRefs(i2) = {}

\* C20: in every reachable state a tracked record that is completed has its
\* course_id set and a Course record with that id is stored, so a
\* get_processing_status answer with status completed always names a stored Course.
C20_CompletedHasCourse ==
    /\ \A id \in DOMAIN processing_status :
          processing_status[id].status = "completed" =>
              /\ processing_status[id].course_id # NoId
              /\ \E i \in CourseIdx : db_courses[i].id = processing_status[id].course_id
    /\ (resp.op = "status" /\ resp.code = 200) => resp.id \in DOMAIN processing_status

\* get_processing_status has answered completed for an upload while a second,
\* overlapping run of the same upload is between its module inserts and its
\* course insert.
C20_Witness ==
    /\ resp.op = "status"
    /\ resp.code = 200
    /\ processing_status[resp.id].status = "completed"
    /\ \E t \in 1..Len(tasks) :
          /\ tasks[t].upload_id = resp.id
          /\ tasks[t].pc = "course"
          /\ tasks[t].inserted > 0

====
